---- MODULE Spec2Model ----
(***************************************************************************)
(* API-key middleware of the agent template: key validation against the   *)
(* credential store, the in-memory per-minute rate limiter, the request   *)
(* pipeline of APIKeyMiddleware.__call__ and the detached usage tracker.  *)
(***************************************************************************)
EXTENDS Integers, Sequences, FiniteSets, Bags, TLC

\* ------------------------------------------------------------------ bounds
NumRequests    == 2     \* requests handled by the process
PipelineLimit  == 1     \* rate_limit of key k1 in Spec
MaxLimit       == 1     \* largest rate_limit drawn for key k1 in SpecLimiter
MaxValidations == 2     \* direct validate_api_key calls in SpecValidate
MaxKeyLen      == 2     \* characters after the "ak_" prefix of a candidate key
StartClock     == 30    \* time.time() when the process starts
ClockStep      == 30    \* seconds the wall clock advances per tick
MaxClock       == 60    \* the clock advances until it reaches this
ExpiryK2       == 30    \* expires_at of the expiring key k2, epoch seconds
MaxCalls       == 4     \* direct check_rate_limit calls in SpecLimiter
LimiterClock   == 150   \* the clock of SpecLimiter advances until here
MaxCompareLen  == 2     \* longest string of a direct _secure_compare call

\* ------------------------------------------------------- program constants
WindowSeconds    == 60  \* int(current_time // 60)
DefaultRateLimit == 100 \* key_doc.get('rate_limit', 100)

AGENT_ID == "agentA"    \* the service this middleware protects

Requests == 1..NumRequests

None == [none |-> TRUE]

EmptyMap == [x \in {} |-> 0]

Get(d, field, default) == IF field \in DOMAIN d THEN d[field] ELSE default

\* ------------------------------------------------------------------ digest
Chars == <<"a", "b">>

\* the characters a bearer value may carry: those of a key, and two that no
\* generated key contains
Alphabet == Chars \o <<"@", " ">>

CharIdx(c) == CHOOSE i \in 1..Len(Alphabet) : Alphabet[i] = c

BodiesOfLen[n \in Nat] ==
    IF n = 0 THEN {<<>>}
    ELSE {Append(s, Chars[i]) : s \in BodiesOfLen[n - 1], i \in 1..Len(Chars)}

\* every candidate key "ak_" + body, body of at most MaxKeyLen characters
AllKeys == {<<"ak_">> \o s : s \in UNION {BodiesOfLen[n] : n \in 0..MaxKeyLen}}

HexDigits == <<"0", "1", "2", "3", "4", "5", "6", "7",
               "8", "9", "a", "b", "c", "d", "e", "f">>

DigestLen == 2          \* characters of a hexdigest

RECURSIVE KeyCode(_)
KeyCode(body) ==
    IF body = <<>> THEN 0
    ELSE KeyCode(SubSeq(body, 1, Len(body) - 1)) * (Len(Alphabet) + 1)
         + CharIdx(body[Len(body)])

RECURSIVE ToHex(_, _)
ToHex(n, w) ==
    IF w = 0 THEN <<>>
    ELSE Append(ToHex(n \div 16, w - 1), HexDigits[(n % 16) + 1])

\* hashlib.sha256(api_key.encode()).hexdigest(): a fixed-length hex string,
\* distinct for distinct keys
Digest(api_key) == ToHex(KeyCode(Tail(api_key)), DigestLen)

\* ------------------------------------------------------- _secure_compare
Ord(c) ==
    LET i == CHOOSE j \in 1..16 : HexDigits[j] = c
    IN  IF i <= 10 THEN 47 + i ELSE 86 + i

RECURSIVE BitXor(_, _)
BitXor(x, y) ==
    IF x = 0 /\ y = 0 THEN 0
    ELSE 2 * BitXor(x \div 2, y \div 2) + (IF x % 2 = y % 2 THEN 0 ELSE 1)

RECURSIVE BitOr(_, _)
BitOr(x, y) ==
    IF x = 0 /\ y = 0 THEN 0
    ELSE 2 * BitOr(x \div 2, y \div 2) + (IF x % 2 = 1 \/ y % 2 = 1 THEN 1 ELSE 0)

\* for x, y in zip(a, b): result |= ord(x) ^ ord(y), with the number of
\* passes through the loop body counted in steps
RECURSIVE CompareFold(_, _, _, _)

\* mutant: the loop is left at the first position that differs
CompareFoldShortCircuit(a, b, i, acc) ==
    IF i > Len(a) \/ i > Len(b) \/ acc.result # 0 THEN acc
    ELSE CompareFold(a, b, i + 1,
             [result |-> BitOr(acc.result, BitXor(Ord(a[i]), Ord(b[i]))),
              steps |-> acc.steps + 1])

CompareFold(a, b, i, acc) ==
    IF i > Len(a) \/ i > Len(b) THEN acc
    ELSE CompareFold(a, b, i + 1,
             [result |-> BitOr(acc.result, BitXor(Ord(a[i]), Ord(b[i]))),
              steps |-> acc.steps + 1])

\* result = 0 before the loop
FoldStart == [result |-> 0, steps |-> 0]

\* mutant: the lengths are not compared before the loop
SecureCompareNoLengthCheck(a, b) == CompareFold(a, b, 1, FoldStart).result = 0

\* mutant: only the first position is compared
SecureCompareFirstOnly(a, b) ==
    IF Len(a) # Len(b) THEN FALSE
    ELSE Len(a) = 0 \/ BitXor(Ord(a[1]), Ord(b[1])) = 0

_secure_compare(a, b) ==
    IF Len(a) # Len(b) THEN FALSE
    ELSE CompareFold(a, b, 1, FoldStart).result = 0

\* the passes through the loop body one call makes
CompareSteps(a, b) ==
    IF Len(a) # Len(b) THEN 0
    ELSE CompareFold(a, b, 1, FoldStart).steps

\* the strings the comparison is called with directly: hex characters, of
\* every length up to MaxCompareLen, the empty string included
CompareChars == {"0", "1", "f"}

CompareInputs == UNION {[1..n -> CompareChars] : n \in 0..MaxCompareLen}

\* ------------------------------------------------------------ the store
\* Firestore yields the documents of a collection in document-id order
KeyOrder == <<"k1", "k2", "k3">>

KeyIds == {KeyOrder[i] : i \in 1..Len(KeyOrder)}

Secret1 == <<"ak_", "a", "b">>
Secret2 == <<"ak_", "a", "a">>
Secret3 == <<"ak_", "b", "b">>

\* the api_keys collection at start: k1 never expires and carries the drawn
\* rate limit, k2 expires at ExpiryK2, k3 belongs to another agent and has no
\* rate_limit field; expires_at is held as epoch seconds (UTC)
InitKeys(limit) ==
    [id \in KeyIds |->
        CASE id = "k1" ->
               [agent_id |-> AGENT_ID, status |-> "active",
                key_hash |-> Digest(Secret1), created_by |-> "u1",
                organization_id |-> "o1", rate_limit |-> limit,
                total_calls |-> 0, last_used |-> 0]
          [] id = "k2" ->
               [agent_id |-> AGENT_ID, status |-> "active",
                key_hash |-> Digest(Secret2), created_by |-> "u2",
                rate_limit |-> 1, expires_at |-> ExpiryK2,
                total_calls |-> 0, last_used |-> 0]
          [] OTHER ->
               [agent_id |-> "agentB", status |-> "active",
                key_hash |-> Digest(Secret3), created_by |-> "u3",
                organization_id |-> "o3",
                total_calls |-> 0, last_used |-> 0]]

\* a store in which the secret of k2 was issued a second time: k3 is a
\* record of the same agent with the same key_hash and no expires_at, and
\* follows k2 in the order of the query
DuplicateKeys ==
    [InitKeys(PipelineLimit) EXCEPT
        !["k3"] = [agent_id |-> AGENT_ID, status |-> "active",
                   key_hash |-> Digest(Secret2), created_by |-> "u2",
                   rate_limit |-> 1, total_calls |-> 0, last_used |-> 0]]

\* ------------------------------------------------------ validate_api_key
\* .where('agent_id', '==', agent_id).where('status', '==', 'active').stream()
RECURSIVE QueryFrom(_, _, _)

\* mutant: the query without its status filter
QueryAnyStatus(store, agent_id, i) ==
    IF i > Len(KeyOrder) THEN <<>>
    ELSE LET id == KeyOrder[i]
             rest == QueryFrom(store, agent_id, i + 1)
         IN  IF store[id].agent_id = agent_id
             THEN <<id>> \o rest
             ELSE rest

QueryFrom(store, agent_id, i) ==
    IF i > Len(KeyOrder) THEN <<>>
    ELSE LET id == KeyOrder[i]
             rest == QueryFrom(store, agent_id, i + 1)
         IN  IF store[id].agent_id = agent_id /\ store[id].status = "active"
             THEN <<id>> \o rest
             ELSE rest

Query(store, agent_id) == QueryFrom(store, agent_id, 1)

\* mutant: the expiry comparison reversed
ExpiredReversed(doc_data, t) ==
    /\ "expires_at" \in DOMAIN doc_data
    /\ t < doc_data.expires_at

\* doc_data.get('expires_at') is set and datetime.now(timezone.utc) is past it
Expired(doc_data, t) ==
    /\ "expires_at" \in DOMAIN doc_data
    /\ t > doc_data.expires_at

HashMatches(key_hash, doc_data) ==
    /\ "key_hash" \in DOMAIN doc_data
    /\ doc_data.key_hash # <<>>
    /\ _secure_compare(key_hash, doc_data.key_hash)

RECURSIVE ValidateLoop(_, _, _, _, _)
ValidateLoop(store, query, i, key_hash, t) ==
    IF i > Len(query) THEN None
    ELSE LET doc_data == [id |-> query[i]] @@ store[query[i]]
         IN  IF HashMatches(key_hash, doc_data)
             THEN IF Expired(doc_data, t) THEN None ELSE doc_data
             ELSE ValidateLoop(store, query, i + 1, key_hash, t)

\* the record the call returns, None for an invalid key
validate_api_key(store, api_key, agent_id, t) ==
    ValidateLoop(store, Query(store, agent_id), 1, Digest(api_key), t)

\* ------------------------------------------------------ check_rate_limit
minute_window(t) == t \div WindowSeconds

\* mutant: one counter per minute for all keys
CacheKeyShared(api_key_id, bucket) == <<"all", bucket>>

\* mutant: the composite key without the minute bucket
CacheKeyNoBucket(api_key_id, bucket) == <<api_key_id, 0>>

\* a segment of a cache key that int() does not accept
NotANumber == -1

\* api_key_id.split(':'): an id without ':' is its own single segment; of
\* the ids with a ':' that check_rate_limit is called with, "x:0" has a
\* second segment that int() reads as 0 and "x:y" one that int() rejects
Segments(api_key_id) ==
    IF api_key_id = "x:0" THEN <<"x", 0>>
    ELSE IF api_key_id = "x:y" THEN <<"x", NotANumber>>
    ELSE <<api_key_id>>

\* f"{api_key_id}:{minute_window}", held as its ':'-separated segments
CacheKey(api_key_id, bucket) == Segments(api_key_id) \o <<bucket>>

\* mutant: a new entry starts at 1
TouchStartsAtOne(cache, key) ==
    IF key \in DOMAIN cache THEN cache ELSE cache @@ (key :> 1)

Touch(cache, key) == IF key \in DOMAIN cache THEN cache ELSE cache @@ (key :> 0)

\* mutant: the limit test off by one
ExceededStrict(count, rate_limit) == count > rate_limit

\* if self.rate_limit_cache[key] >= rate_limit
Exceeded(count, rate_limit) == count >= rate_limit

\* mutant: the clean-up bound on the wrong side of the current bucket
CleanupDropsCurrent(cache, bucket) ==
    LET keep == {ck \in DOMAIN cache : ~(ck[2] < bucket + 1)}
    IN  [ck \in keep |-> cache[ck]]

\* the entries the clean-up loop keeps: int(cache_key.split(':')[1]) is not
\* below minute_window - 1
Cleanup(cache, bucket) ==
    LET keep == {ck \in DOMAIN cache : ~(ck[2] < bucket - 1)}
    IN  [ck \in keep |-> cache[ck]]

\* int(cache_key.split(':')[1]) raises ValueError for an entry of the map
CleanupRaises(cache) == \E ck \in DOMAIN cache : ck[2] = NotANumber

\* mutant: the counter is increased before it is tested
CheckRateLimitCountsAll(cache, api_key_id, rate_limit, t) ==
    LET bucket == minute_window(t)
        key == CacheKey(api_key_id, bucket)
        c1 == Touch(cache, key)
        c2 == [c1 EXCEPT ![key] = @ + 1]
    IN  IF Exceeded(c1[key], rate_limit)
        THEN [ok |-> FALSE, raised |-> FALSE, cache |-> c2]
        ELSE [ok |-> TRUE, raised |-> FALSE, cache |-> Cleanup(c2, bucket)]

\* [ok |-> the decision, raised |-> the call raised and gave no decision,
\*  cache |-> the window map after the call]; the scan of the clean-up
\* raises after the counter was increased and before any entry is deleted
check_rate_limit(cache, api_key_id, rate_limit, t) ==
    LET bucket == minute_window(t)
        key == CacheKey(api_key_id, bucket)
        c1 == Touch(cache, key)
        c2 == [c1 EXCEPT ![key] = @ + 1]
    IN  IF Exceeded(c1[key], rate_limit)
        THEN [ok |-> FALSE, raised |-> FALSE, cache |-> c1]
        ELSE IF CleanupRaises(c2)
        THEN [ok |-> FALSE, raised |-> TRUE, cache |-> c2]
        ELSE [ok |-> TRUE, raised |-> FALSE, cache |-> Cleanup(c2, bucket)]

\* --------------------------------------------------------------- requests
\* the Authorization header as its tokens: <<>> when the header is missing,
\* <<"Bearer ", "ak_", c1, ...>> for an API key, "Bearer " being the seven
\* characters auth_header[7:] removes
RequestKeys == {Secret1, Secret2, Secret3, <<"ak_", "b", "a">>}

Headers == {<<>>} \cup {<<"Bearer ">> \o k : k \in RequestKeys}

\* mutant: the scheme in front of the key is not looked at
IsApiKeyHeaderAnyScheme(h) == Len(h) >= 2 /\ h[2] = "ak_"

\* auth_header and auth_header.startswith("Bearer ak_")
IsApiKeyHeader(h) == Len(h) >= 2 /\ h[1] = "Bearer " /\ h[2] = "ak_"

\* what the downstream stage answers: a status and the optional side-channel
\* headers, whose values are the str() of a number
Digits == <<"0", "1", "2", "3">>

ParseNumber(text) == (CHOOSE i \in 1..Len(Digits) : Digits[i] = text) - 1

DownResponses ==
    { [status_code |-> 200,
       headers |-> [XTokenCount |-> "3", XCostUSD |-> "2"]],
      [status_code |-> 500, headers |-> EmptyMap] }

JSONResponse(code, detail) ==
    [status_code |-> code, headers |-> EmptyMap, detail |-> detail]

\* Authorization values that do not start with "Bearer ak_": no header, the
\* empty value, "Bearer " alone, other prefixes after "Bearer ", a lower-case
\* scheme and another scheme in front of a stored key
NonKeyHeaders ==
    { <<>>, <<"">>, <<"Bearer ">>,
      <<"Bearer ", "invalid_key">>, <<"Bearer ", "bearer_", "a">>,
      <<"bearer ">> \o Secret1, <<"Basic ">> \o Secret1 }

\* a key body one character longer than any generated key
LongBody == [i \in 1..(MaxKeyLen + 1) |-> "a"]

\* "Bearer ak_..." values that are no generated key: the bare prefix, a short
\* and a long body, a body with an invalid character, a body with a space
MalformedKeyHeaders ==
    { <<"Bearer ", "ak_">>, <<"Bearer ", "ak_", "a">>,
      <<"Bearer ", "ak_">> \o LongBody,
      <<"Bearer ", "ak_", "a", "@">>, <<"Bearer ", "ak_", " ", "a">> }

EdgeHeaders ==
    NonKeyHeaders \cup MalformedKeyHeaders \cup {<<"Bearer ">> \o Secret1}

\* what POST /api/conversation/create answers: the ConversationResponse, or
\* the 500 its except clause raises; neither carries a usage header
CreateResponses ==
    { [status_code |-> 200, headers |-> EmptyMap],
      [status_code |-> 500, headers |-> EmptyMap] }

VARIABLES
    now,               \* time.time(), epoch seconds
    api_keys,          \* collection api_keys: document id -> fields
    usage_logs,        \* collection api_key_usage_logs, a bag of entries
    summaries,         \* collection agent_usage_summary: agent id -> fields
    rate_limit_cache,  \* APIKeyValidator.rate_limit_cache
    pc,                \* where each request stands in __call__
    auth_header,       \* the request's Authorization header
    key_doc,           \* the local key_doc of __call__
    store_failed,      \* whether the validation query of the request raised
    req_state,         \* request.state
    calls,             \* how often call_next was invoked for the request
    response,          \* what __call__ returned
    downstream,        \* what call_next gave: a response, or Raised
    task,              \* where the detached track_usage task stands
    usage_data,        \* the usage_data handed to track_usage
    rl_log,            \* the check_rate_limit calls made so far, in order
    val_log,           \* the direct validate_api_key calls of SpecValidate
    cmp                \* the direct _secure_compare call of SpecCompare

vars == <<now, api_keys, usage_logs, summaries, rate_limit_cache, pc,
          auth_header, key_doc, store_failed, req_state, calls, response,
          downstream, task, usage_data, rl_log, val_log, cmp>>

storeVars == <<api_keys, usage_logs, summaries>>

reqVars == <<pc, auth_header, key_doc, store_failed, req_state, calls,
             response, downstream, usage_data>>

InitOf(stores) ==
    /\ now = StartClock
    /\ api_keys \in stores
    /\ usage_logs = EmptyBag
    /\ summaries = EmptyMap
    /\ rate_limit_cache = EmptyMap
    /\ pc = [r \in Requests |-> "idle"]
    /\ auth_header = [r \in Requests |-> <<>>]
    /\ key_doc = [r \in Requests |-> None]
    /\ store_failed = [r \in Requests |-> FALSE]
    /\ req_state = [r \in Requests |-> EmptyMap]
    /\ calls = [r \in Requests |-> 0]
    /\ response = [r \in Requests |-> None]
    /\ downstream = [r \in Requests |-> None]
    /\ task = [r \in Requests |-> "none"]
    /\ usage_data = [r \in Requests |-> None]
    /\ rl_log = <<>>
    /\ val_log = <<>>
    /\ cmp = None

InitWith(limits) == InitOf({InitKeys(limit) : limit \in limits})

Init == InitWith({PipelineLimit})

\* the clock advances
Tick ==
    /\ now < MaxClock
    /\ now' = now + ClockStep
    /\ UNCHANGED <<storeVars, rate_limit_cache, reqVars, task, rl_log, val_log, cmp>>

\* a key of this agent is revoked from outside (the dashboard); the keys of
\* other agents are in no query of this middleware, whatever their status
Revoke(id) ==
    /\ api_keys[id].status = "active"
    /\ api_keys[id].agent_id = AGENT_ID
    /\ api_keys' = [api_keys EXCEPT ![id].status = "revoked"]
    /\ UNCHANGED <<now, usage_logs, summaries, rate_limit_cache, reqVars,
                   task, rl_log, val_log, cmp>>

\* mutant: the owning user is not copied from the record
IdentityWithoutOwner(doc) ==
    [api_key_id |-> doc.id,
     api_key_user_id |-> "None",
     organization_id |-> Get(doc, "organization_id", "None"),
     auth_method |-> "api_key"]

\* request.state after the four assignments
Identity(doc) ==
    [api_key_id |-> doc.id,
     api_key_user_id |-> Get(doc, "created_by", "None"),
     organization_id |-> Get(doc, "organization_id", "None"),
     auth_method |-> "api_key"]

\* what validate_api_key returns to __call__: the except clause of
\* validate_api_key catches a query that raises and returns None
Validated(h, failed) ==
    IF failed THEN None
    ELSE validate_api_key(api_keys, Tail(h), AGENT_ID, now)

\* mutant: the key's own rate_limit is never read
RateLimitDefaultOnly(doc) == DefaultRateLimit

\* rate_limit = key_doc.get('rate_limit', 100)
RateLimitOf(doc) == Get(doc, "rate_limit", DefaultRateLimit)

\* mutant: the 401 is built but not returned, and call_next runs
Reject401FallsThrough(r) ==
    /\ response' = [response EXCEPT
           ![r] = JSONResponse(401, "Invalid or inactive API key")]
    /\ pc' = [pc EXCEPT ![r] = "done"]
    /\ calls' = [calls EXCEPT ![r] = @ + 1]
    /\ UNCHANGED <<rate_limit_cache, rl_log, req_state>>

\* mutant: the detail tells a key that is stored from one that is not
Reject401NamesReason(r) ==
    /\ response' = [response EXCEPT
           ![r] = JSONResponse(401,
                     IF \E id \in KeyIds :
                           api_keys[id].key_hash = Digest(Tail(auth_header'[r]))
                     THEN "Inactive API key" ELSE "Unknown API key")]
    /\ pc' = [pc EXCEPT ![r] = "done"]
    /\ UNCHANGED <<rate_limit_cache, rl_log, req_state, calls>>

\* return JSONResponse(status_code=401, ...): nothing else is touched
Reject401(r) ==
    /\ response' = [response EXCEPT
           ![r] = JSONResponse(401, "Invalid or inactive API key")]
    /\ pc' = [pc EXCEPT ![r] = "done"]
    /\ UNCHANGED <<rate_limit_cache, rl_log, req_state, calls>>

\* mutant: the identity is attached before the rate check is looked at
Reject429AttachesIdentity(r) ==
    /\ response' = [response EXCEPT
           ![r] = JSONResponse(429, "Rate limit exceeded")]
    /\ pc' = [pc EXCEPT ![r] = "done"]
    /\ req_state' = [req_state EXCEPT ![r] = Identity(key_doc'[r])]
    /\ UNCHANGED calls

\* return JSONResponse(status_code=429, ...)
\* mutant: call_next runs before the decision of the rate check is looked at
Reject429CallsDownstream(r) ==
    /\ response' = [response EXCEPT
           ![r] = JSONResponse(429, "Rate limit exceeded")]
    /\ pc' = [pc EXCEPT ![r] = "done"]
    /\ calls' = [calls EXCEPT ![r] = @ + 1]
    /\ UNCHANGED req_state

Reject429(r) ==
    /\ response' = [response EXCEPT
           ![r] = JSONResponse(429, "Rate limit exceeded")]
    /\ pc' = [pc EXCEPT ![r] = "done"]
    /\ UNCHANGED <<req_state, calls>>

\* an exception inside the try block: return JSONResponse(status_code=500, ...)
Error500(r) ==
    /\ response' = [response EXCEPT
           ![r] = JSONResponse(500, "API key validation failed")]
    /\ pc' = [pc EXCEPT ![r] = "done"]
    /\ UNCHANGED <<req_state, calls>>

\* the identity is attached to request.state and call_next is invoked
Forward(r, doc) ==
    /\ req_state' = [req_state EXCEPT ![r] = Identity(doc)]
    /\ calls' = [calls EXCEPT ![r] = @ + 1]
    /\ pc' = [pc EXCEPT ![r] = "forwarding"]
    /\ response' = response

\* the API-key branch of __call__ up to its first suspension: the validation
\* query answers, 401 for no record; else check_rate_limit, 429 when
\* throttled; else the request is forwarded
Authenticate(r, h, failed) ==
    /\ store_failed' = [store_failed EXCEPT ![r] = failed]
    /\ key_doc' = [key_doc EXCEPT ![r] = Validated(h, failed)]
    /\ IF key_doc'[r] = None
       THEN Reject401(r)
       ELSE LET doc == key_doc'[r]
                res == check_rate_limit(rate_limit_cache, doc.id,
                                        RateLimitOf(doc), now)
            IN  /\ rate_limit_cache' = res.cache
                /\ rl_log' = Append(rl_log,
                       [req |-> r, id |-> doc.id, limit |-> RateLimitOf(doc),
                        t |-> now, ok |-> res.ok, raised |-> res.raised])
                /\ IF res.raised THEN Error500(r)
                   ELSE IF res.ok THEN Forward(r, doc) ELSE Reject429(r)

\* mutant: the request is marked as authenticated by API key on its way
PassThroughAttaches(r) ==
    /\ pc' = [pc EXCEPT ![r] = "passthrough"]
    /\ calls' = [calls EXCEPT ![r] = @ + 1]
    /\ req_state' = [req_state EXCEPT ![r] = [auth_method |-> "api_key"]]
    /\ UNCHANGED <<rate_limit_cache, rl_log, key_doc, store_failed, response>>

\* no API key: the request goes on to call_next
PassThrough(r) ==
    /\ pc' = [pc EXCEPT ![r] = "passthrough"]
    /\ calls' = [calls EXCEPT ![r] = @ + 1]
    /\ UNCHANGED <<rate_limit_cache, rl_log, req_state, key_doc, store_failed,
                   response>>

\* __call__ runs from its entry to its first suspension or return
Handle(r, h, failed) ==
    /\ pc[r] = "idle"
    /\ \A q \in Requests : q < r => pc[q] # "idle"
    /\ auth_header' = [auth_header EXCEPT ![r] = h]
    /\ IF IsApiKeyHeader(h) THEN Authenticate(r, h, failed)
       ELSE failed = FALSE /\ PassThrough(r)
    /\ UNCHANGED <<now, storeVars, downstream, task, usage_data, val_log, cmp>>

\* the usage_data dictionary built from the downstream response
UsageData(r, resp) ==
    LET base == [agent_id |-> AGENT_ID,
                 request_path |-> r,
                 method |-> "POST",
                 response_status |-> resp.status_code,
                 user_id |-> Get(key_doc[r], "created_by", "None"),
                 organization_id |-> Get(key_doc[r], "organization_id", "None")]
        tokens == IF "XTokenCount" \in DOMAIN resp.headers
                  THEN [tokens_used |-> ParseNumber(resp.headers.XTokenCount)]
                  ELSE EmptyMap
        cost == IF "XCostUSD" \in DOMAIN resp.headers
                THEN [cost_usd |-> ParseNumber(resp.headers.XCostUSD)]
                ELSE EmptyMap
    IN  base @@ tokens @@ cost

\* mutant: track_usage is awaited, so the counter update of the request is
\* made before its response is returned
DownstreamReturnsAwaits(r, resp) ==
    /\ pc[r] = "forwarding"
    /\ usage_data' = [usage_data EXCEPT ![r] = UsageData(r, resp)]
    /\ api_keys' = [api_keys EXCEPT
           ![key_doc[r].id].total_calls = @ + 1,
           ![key_doc[r].id].last_used = now]
    /\ task' = [task EXCEPT ![r] = "log"]
    /\ response' = [response EXCEPT ![r] = resp]
    /\ downstream' = [downstream EXCEPT ![r] = resp]
    /\ pc' = [pc EXCEPT ![r] = "done"]
    /\ UNCHANGED <<now, usage_logs, summaries, rate_limit_cache, auth_header,
                   key_doc, store_failed, req_state, calls, rl_log, val_log, cmp>>

\* mutant: the response is returned and no tracking task is created
DownstreamReturnsDropsTask(r, resp) ==
    /\ pc[r] = "forwarding"
    /\ usage_data' = [usage_data EXCEPT ![r] = UsageData(r, resp)]
    /\ task' = task
    /\ response' = [response EXCEPT ![r] = resp]
    /\ downstream' = [downstream EXCEPT ![r] = resp]
    /\ pc' = [pc EXCEPT ![r] = "done"]
    /\ UNCHANGED <<now, storeVars, rate_limit_cache, auth_header, key_doc,
                   store_failed, req_state, calls, rl_log, val_log, cmp>>

\* int(...) and float(...) of a header value return for the str() of a
\* number and raise ValueError for any other text
IsNumber(text) == \E i \in 1..Len(Digits) : Digits[i] = text

SideChannelParses(resp) ==
    \A h \in {"XTokenCount", "XCostUSD"} \cap DOMAIN resp.headers :
        IsNumber(resp.headers[h])

\* call_next returned: usage_data is built, the track_usage task is created
\* and the downstream response is returned; a side-channel header that does
\* not parse raises inside the try block, and the except clause answers 500
\* before any task is created
DownstreamReturns(r, resp) ==
    /\ pc[r] = "forwarding"
    /\ downstream' = [downstream EXCEPT ![r] = resp]
    /\ pc' = [pc EXCEPT ![r] = "done"]
    /\ IF SideChannelParses(resp)
       THEN /\ usage_data' = [usage_data EXCEPT ![r] = UsageData(r, resp)]
            /\ task' = [task EXCEPT ![r] = "update"]
            /\ response' = [response EXCEPT ![r] = resp]
       ELSE /\ response' = [response EXCEPT
                   ![r] = JSONResponse(500, "API key validation failed")]
            /\ UNCHANGED <<usage_data, task>>
    /\ UNCHANGED <<now, storeVars, rate_limit_cache, auth_header, key_doc,
                   store_failed, req_state, calls, rl_log, val_log, cmp>>

\* call_next raised
Raised == [raised |-> TRUE]

\* mutant: the exception of call_next is answered 500 and the request is
\* accounted with that status
DownstreamRaisesTracks(r) ==
    /\ pc[r] = "forwarding"
    /\ downstream' = [downstream EXCEPT ![r] = Raised]
    /\ response' = [response EXCEPT
           ![r] = JSONResponse(500, "API key validation failed")]
    /\ pc' = [pc EXCEPT ![r] = "done"]
    /\ usage_data' = [usage_data EXCEPT ![r] =
           UsageData(r, [status_code |-> 500, headers |-> EmptyMap])]
    /\ task' = [task EXCEPT ![r] = "update"]
    /\ UNCHANGED <<now, storeVars, rate_limit_cache, auth_header, key_doc,
                   store_failed, req_state, calls, rl_log, val_log, cmp>>

\* 'await call_next(request)' raises inside the try block: the except clause
\* answers 500 and the lines that build usage_data and create the task are
\* not reached
DownstreamRaises(r) ==
    /\ pc[r] = "forwarding"
    /\ downstream' = [downstream EXCEPT ![r] = Raised]
    /\ response' = [response EXCEPT
           ![r] = JSONResponse(500, "API key validation failed")]
    /\ pc' = [pc EXCEPT ![r] = "done"]
    /\ UNCHANGED <<now, storeVars, rate_limit_cache, auth_header, key_doc,
                   store_failed, req_state, calls, task, usage_data, rl_log,
                   val_log, cmp>>

\* no API key: return await call_next(request)
PassThroughReturns(r, resp) ==
    /\ pc[r] = "passthrough"
    /\ response' = [response EXCEPT ![r] = resp]
    /\ downstream' = [downstream EXCEPT ![r] = resp]
    /\ pc' = [pc EXCEPT ![r] = "done"]
    /\ UNCHANGED <<now, storeVars, rate_limit_cache, auth_header, key_doc,
                   store_failed, req_state, calls, task, usage_data, rl_log, val_log, cmp>>

\* ------------------------------------------------------------ track_usage
\* the task created by asyncio.create_task; each call it makes to the store is
\* one step, and the store serves the calls of the tasks of all requests
\* (of this worker and of the other workers of the service) in any order
\* mutant: the amount is taken off the counter
IncrementNegated(value, by) == value - by

\* mutant: the increment is applied twice
IncrementTwice(value, by) == value + by + by

\* firestore.Increment(by), applied by the store
Increment(value, by) == value + by

\* mutant: the client writes the total_calls it read at validation plus one
TrackUpdateFromRead(r, failed) ==
    /\ task[r] = "update"
    /\ IF failed
       THEN /\ task' = [task EXCEPT ![r] = "update_failed"]
            /\ api_keys' = api_keys
       ELSE /\ task' = [task EXCEPT ![r] = "log"]
            /\ api_keys' = [api_keys EXCEPT
                   ![key_doc[r].id].total_calls = key_doc[r].total_calls + 1,
                   ![key_doc[r].id].last_used = now]
    /\ UNCHANGED <<now, usage_logs, summaries, rate_limit_cache, reqVars,
                   rl_log, val_log, cmp>>

\* mutant: a failed counter update is logged and the run goes on
TrackUpdateFailureLogs(r, failed) ==
    /\ task[r] = "update"
    /\ task' = [task EXCEPT ![r] = "log"]
    /\ api_keys' = IF failed THEN api_keys
                   ELSE [api_keys EXCEPT
                           ![key_doc[r].id].total_calls = Increment(@, 1),
                           ![key_doc[r].id].last_used = now]
    /\ UNCHANGED <<now, usage_logs, summaries, rate_limit_cache, reqVars,
                   rl_log, val_log, cmp>>

\* api_key_ref.update({'total_calls': Increment(1), 'last_used': SERVER_TIMESTAMP})
TrackUpdate(r, failed) ==
    /\ task[r] = "update"
    /\ IF failed
       THEN /\ task' = [task EXCEPT ![r] = "update_failed"]
            /\ api_keys' = api_keys
       ELSE /\ task' = [task EXCEPT ![r] = "log"]
            /\ api_keys' = [api_keys EXCEPT
                   ![key_doc[r].id].total_calls = Increment(@, 1),
                   ![key_doc[r].id].last_used = now]
    /\ UNCHANGED <<now, usage_logs, summaries, rate_limit_cache, reqVars,
                   rl_log, val_log, cmp>>

\* mutant: a missing tokens_used or cost_usd is recorded as -1, not as 0
UsageLogMissingMarked(api_key_id, data, t) ==
    [api_key_id |-> api_key_id,
     agent_id |-> Get(data, "agent_id", "None"),
     request_path |-> Get(data, "request_path", "None"),
     method |-> Get(data, "method", "POST"),
     timestamp |-> t,
     response_status |-> Get(data, "response_status", 200),
     tokens_used |-> Get(data, "tokens_used", -1),
     cost_usd |-> Get(data, "cost_usd", -1),
     user_id |-> Get(data, "user_id", "None"),
     organization_id |-> Get(data, "organization_id", "None")]

\* the usage_log dictionary
UsageLog(api_key_id, data, t) ==
    [api_key_id |-> api_key_id,
     agent_id |-> Get(data, "agent_id", "None"),
     request_path |-> Get(data, "request_path", "None"),
     method |-> Get(data, "method", "POST"),
     timestamp |-> t,
     response_status |-> Get(data, "response_status", 200),
     tokens_used |-> Get(data, "tokens_used", 0),
     cost_usd |-> Get(data, "cost_usd", 0),
     user_id |-> Get(data, "user_id", "None"),
     organization_id |-> Get(data, "organization_id", "None")]

\* mutant: an event with a cost of 0, or with no cost, is rolled up too
CostBearingAlways(data) == Get(data, "cost_usd", 0) >= 0

\* if usage_data.get('cost_usd', 0) > 0
CostBearing(data) == Get(data, "cost_usd", 0) > 0

\* mutant: a failed append is not caught and replaces the request's response
TrackLogUnwinds(r, failed) ==
    /\ task[r] = "log"
    /\ IF failed
       THEN /\ task' = [task EXCEPT ![r] = "log_failed"]
            /\ usage_logs' = usage_logs
            /\ response' = [response EXCEPT
                   ![r] = JSONResponse(500, "API key validation failed")]
       ELSE /\ usage_logs' = usage_logs (+)
                   SetToBag({UsageLog(key_doc[r].id, usage_data[r], now)})
            /\ task' = [task EXCEPT ![r] =
                   IF CostBearing(usage_data[r]) THEN "billing" ELSE "tracked"]
            /\ response' = response
    /\ UNCHANGED <<now, api_keys, summaries, rate_limit_cache, pc, auth_header,
                   key_doc, store_failed, req_state, calls, downstream,
                   usage_data, rl_log, val_log, cmp>>

\* mutant: the entry is written under the key's id and replaces the
\* entry written for that key before
TrackLogReplaces(r, failed) ==
    /\ task[r] = "log"
    /\ IF failed
       THEN /\ task' = [task EXCEPT ![r] = "log_failed"]
            /\ usage_logs' = usage_logs
       ELSE /\ LET others == {e \in BagToSet(usage_logs) :
                                 e.api_key_id # key_doc[r].id}
               IN  usage_logs' = [e \in others |-> usage_logs[e]] (+)
                      SetToBag({UsageLog(key_doc[r].id, usage_data[r], now)})
            /\ task' = [task EXCEPT ![r] =
                   IF CostBearing(usage_data[r]) THEN "billing" ELSE "tracked"]
    /\ UNCHANGED <<now, api_keys, summaries, rate_limit_cache, reqVars,
                   rl_log, val_log, cmp>>

\* self.db.collection('api_key_usage_logs').add(usage_log)
TrackLog(r, failed) ==
    /\ task[r] = "log"
    /\ IF failed
       THEN /\ task' = [task EXCEPT ![r] = "log_failed"]
            /\ usage_logs' = usage_logs
       ELSE /\ usage_logs' = usage_logs (+)
                   SetToBag({UsageLog(key_doc[r].id, usage_data[r], now)})
            /\ task' = [task EXCEPT ![r] =
                   IF CostBearing(usage_data[r]) THEN "billing" ELSE "tracked"]
    /\ UNCHANGED <<now, api_keys, summaries, rate_limit_cache, reqVars,
                   rl_log, val_log, cmp>>

\* doc = summary_ref.get(); an error inside _update_agent_billing_summary is
\* caught there and track_usage completes
BillingGet(r, failed) ==
    /\ task[r] = "billing"
    /\ task' = [task EXCEPT ![r] =
           IF failed THEN "billing_failed"
           ELSE IF usage_data[r].agent_id \in DOMAIN summaries
                THEN "billing_update" ELSE "billing_set"]
    /\ UNCHANGED <<now, storeVars, rate_limit_cache, reqVars, rl_log, val_log, cmp>>

NewSummary(agent_id, tokens, cost, t) ==
    [agentId |-> agent_id, totalMessages |-> 1, totalTokens |-> tokens,
     totalCost |-> cost, apiKeyUsage |-> 1, webUsage |-> 0,
     lastActivity |-> t, createdAt |-> t, updatedAt |-> t]

\* mutant: the event is counted as web usage
UpdatedSummaryCountsWeb(old, tokens, cost, t) ==
    [old EXCEPT !.totalMessages = Increment(@, 1),
                !.totalTokens = Increment(@, tokens),
                !.totalCost = Increment(@, cost),
                !.webUsage = Increment(@, 1),
                !.lastActivity = t,
                !.updatedAt = t]

UpdatedSummary(old, tokens, cost, t) ==
    [old EXCEPT !.totalMessages = Increment(@, 1),
                !.totalTokens = Increment(@, tokens),
                !.totalCost = Increment(@, cost),
                !.apiKeyUsage = Increment(@, 1),
                !.lastActivity = t,
                !.updatedAt = t]

\* summary_ref.update({...}) of an existing summary
BillingUpdate(r, failed) ==
    /\ task[r] = "billing_update"
    /\ LET a == usage_data[r].agent_id
       IN  IF failed \/ a \notin DOMAIN summaries
           THEN /\ task' = [task EXCEPT ![r] = "billing_failed"]
                /\ summaries' = summaries
           ELSE /\ task' = [task EXCEPT ![r] = "tracked"]
                /\ summaries' = [summaries EXCEPT ![a] =
                       UpdatedSummary(@, Get(usage_data[r], "tokens_used", 0),
                                      Get(usage_data[r], "cost_usd", 0), now)]
    /\ UNCHANGED <<now, api_keys, usage_logs, rate_limit_cache, reqVars,
                   rl_log, val_log, cmp>>

\* summary_ref.set({...}): the summary is written whole
BillingSet(r, failed) ==
    /\ task[r] = "billing_set"
    /\ LET a == usage_data[r].agent_id
       IN  IF failed
           THEN /\ task' = [task EXCEPT ![r] = "billing_failed"]
                /\ summaries' = summaries
           ELSE /\ task' = [task EXCEPT ![r] = "tracked"]
                /\ summaries' = [x \in DOMAIN summaries \cup {a} |->
                       IF x = a
                       THEN NewSummary(a, Get(usage_data[r], "tokens_used", 0),
                                       Get(usage_data[r], "cost_usd", 0), now)
                       ELSE summaries[x]]
    /\ UNCHANGED <<now, api_keys, usage_logs, rate_limit_cache, reqVars,
                   rl_log, val_log, cmp>>

\* the key revoked while requests are served; SpecValidate revokes any
Revocable == {"k1"}

Next ==
    \/ Tick
    \/ \E id \in Revocable : Revoke(id)
    \/ \E r \in Requests, h \in Headers, failed \in BOOLEAN :
          Handle(r, h, failed)
    \/ \E r \in Requests, resp \in DownResponses : DownstreamReturns(r, resp)
    \/ \E r \in Requests, resp \in DownResponses : PassThroughReturns(r, resp)
    \/ \E r \in Requests, failed \in BOOLEAN : TrackUpdate(r, failed)
    \/ \E r \in Requests, failed \in BOOLEAN : TrackLog(r, failed)
    \/ \E r \in Requests, failed \in BOOLEAN : BillingGet(r, failed)
    \/ \E r \in Requests, failed \in BOOLEAN : BillingUpdate(r, failed)
    \/ \E r \in Requests, failed \in BOOLEAN : BillingSet(r, failed)

Spec == Init /\ [][Next]_vars

\* the next store call of the track_usage task of request r
TaskNext(r) ==
    \E failed \in BOOLEAN :
        \/ TrackUpdate(r, failed)
        \/ TrackLog(r, failed)
        \/ BillingGet(r, failed)
        \/ BillingUpdate(r, failed)
        \/ BillingSet(r, failed)

\* the event loop runs a task it was handed by asyncio.create_task: a task
\* that can take its next step is not left waiting for ever
SpecFair == Spec /\ \A r \in Requests : WF_vars(TaskNext(r))

\* ------------------------------------------- the rate limiter on its own
\* callers of check_rate_limit for the stored keys, each with the key's limit;
\* the body of check_rate_limit has no await, so a call is one step
LimiterTick ==
    /\ now < LimiterClock
    /\ now' = now + ClockStep
    /\ UNCHANGED <<storeVars, rate_limit_cache, reqVars, task, rl_log, val_log, cmp>>

LimiterCall(id) ==
    /\ Len(rl_log) < MaxCalls
    /\ LET rate_limit == RateLimitOf(api_keys[id])
           res == check_rate_limit(rate_limit_cache, id, rate_limit, now)
       IN  /\ rate_limit_cache' = res.cache
           /\ rl_log' = Append(rl_log,
                  [req |-> 0, id |-> id, limit |-> rate_limit, t |-> now,
                   ok |-> res.ok, raised |-> res.raised])
    /\ UNCHANGED <<now, storeVars, reqVars, task, val_log, cmp>>

NextLimiter ==
    \/ LimiterTick
    \/ \E id \in KeyIds : LimiterCall(id)

InitLimiter == InitWith(0..MaxLimit)

SpecLimiter == InitLimiter /\ [][NextLimiter]_vars

\* check_rate_limit called for one key with a limit that differs from call
\* to call, as when the rate_limit of the record is edited
LimiterCallWith(id, rate_limit) ==
    /\ Len(rl_log) < MaxCalls
    /\ LET res == check_rate_limit(rate_limit_cache, id, rate_limit, now)
       IN  /\ rate_limit_cache' = res.cache
           /\ rl_log' = Append(rl_log,
                  [req |-> 0, id |-> id, limit |-> rate_limit, t |-> now,
                   ok |-> res.ok, raised |-> res.raised])
    /\ UNCHANGED <<now, storeVars, reqVars, task, val_log, cmp>>

NextLimits ==
    \/ LimiterTick
    \/ \E rate_limit \in 0..(MaxLimit + 1) : LimiterCallWith("k1", rate_limit)

SpecLimits == Init /\ [][NextLimits]_vars

\* check_rate_limit called with document ids of any form: one without ':'
\* and two with
CallerIds == {"k1", "x:0", "x:y"}

NextColon ==
    \/ LimiterTick
    \/ \E id \in CallerIds : LimiterCallWith(id, MaxLimit)

SpecColon == Init /\ [][NextColon]_vars

\* ---------------------------------------------- the validator on its own
\* validate_api_key called with the request keys and both service ids while
\* the clock advances and keys are revoked
\* mutant: a validation that finds the record stamps its last_used
ValidateCallTouches(api_key, agent_id, failed) ==
    /\ Len(val_log) < MaxValidations
    /\ LET got == IF failed THEN None
                  ELSE validate_api_key(api_keys, api_key, agent_id, now)
       IN  /\ val_log' = Append(val_log,
                  [api_key |-> api_key, agent_id |-> agent_id, t |-> now,
                   failed |-> failed, got |-> got])
           /\ api_keys' = IF got = None THEN api_keys
                          ELSE [api_keys EXCEPT ![got.id].last_used = now]
    /\ UNCHANGED <<now, usage_logs, summaries, rate_limit_cache, reqVars,
                   task, rl_log, cmp>>

\* one call of validate_api_key; failed: the query raises and the except
\* clause returns None
ValidateCall(api_key, agent_id, failed) ==
    /\ Len(val_log) < MaxValidations
    /\ val_log' = Append(val_log,
           [api_key |-> api_key, agent_id |-> agent_id, t |-> now,
            failed |-> failed,
            got |-> IF failed THEN None
                    ELSE validate_api_key(api_keys, api_key, agent_id, now)])
    /\ UNCHANGED <<now, storeVars, rate_limit_cache, reqVars, task, rl_log,
                   cmp>>

NextValidate ==
    \/ Tick
    \/ \E id \in KeyIds : Revoke(id)
    \/ \E k \in RequestKeys, a \in {AGENT_ID, "agentB"}, failed \in BOOLEAN :
           ValidateCall(k, a, failed)

SpecValidate == Init /\ [][NextValidate]_vars

\* one direct call of _secure_compare
CompareCall(a, b) ==
    /\ cmp = None
    /\ cmp' = [a |-> a, b |-> b, equal |-> _secure_compare(a, b),
               steps |-> CompareSteps(a, b)]
    /\ UNCHANGED <<now, storeVars, rate_limit_cache, reqVars, task, rl_log,
                   val_log>>

NextCompare == \E a, b \in CompareInputs : CompareCall(a, b)

SpecCompare == Init /\ [][NextCompare]_vars

\* ------------------------------ the downstream stage and the side channel
\* what a downstream handler of any kind may answer: usage headers with a
\* cost, with a cost of 0, none at all, and a token count that is no number
SideChannelResponses ==
    { [status_code |-> 200,
       headers |-> [XTokenCount |-> "3", XCostUSD |-> "2"]],
      [status_code |-> 200,
       headers |-> [XTokenCount |-> "1", XCostUSD |-> "0"]],
      [status_code |-> 500, headers |-> EmptyMap],
      [status_code |-> 200,
       headers |-> [XTokenCount |-> "n/a", XCostUSD |-> "2"]] }

\* no header, the keys of k1 and k2, and a key that is not stored
DownstreamHeaders ==
    {<<>>, <<"Bearer ">> \o Secret1, <<"Bearer ">> \o Secret2,
     <<"Bearer ", "ak_", "b", "a">>}

NextDownstream ==
    \/ \E r \in Requests, h \in DownstreamHeaders : Handle(r, h, FALSE)
    \/ \E r \in Requests, resp \in SideChannelResponses :
          DownstreamReturns(r, resp)
    \/ \E r \in Requests : DownstreamRaises(r)
    \/ \E r \in Requests, resp \in CreateResponses : PassThroughReturns(r, resp)
    \/ \E r \in Requests, failed \in BOOLEAN : TrackUpdate(r, failed)
    \/ \E r \in Requests, failed \in BOOLEAN : TrackLog(r, failed)
    \/ \E r \in Requests, failed \in BOOLEAN : BillingGet(r, failed)
    \/ \E r \in Requests, failed \in BOOLEAN : BillingUpdate(r, failed)
    \/ \E r \in Requests, failed \in BOOLEAN : BillingSet(r, failed)

SpecDownstream == Init /\ [][NextDownstream]_vars

\* the same calls on the store with the re-issued secret
InitDuplicates == InitOf({DuplicateKeys})

SpecDuplicates == InitDuplicates /\ [][NextValidate]_vars

\* ------------------------------- the middleware in front of one endpoint
\* requests to POST /api/conversation/create with every kind of
\* Authorization value
NextHeaders ==
    \/ \E r \in Requests, h \in EdgeHeaders, failed \in BOOLEAN :
          Handle(r, h, failed)
    \/ \E r \in Requests, resp \in CreateResponses : DownstreamReturns(r, resp)
    \/ \E r \in Requests, resp \in CreateResponses : PassThroughReturns(r, resp)
    \/ \E r \in Requests, failed \in BOOLEAN : TrackUpdate(r, failed)
    \/ \E r \in Requests, failed \in BOOLEAN : TrackLog(r, failed)

SpecHeaders == Init /\ [][NextHeaders]_vars

\* ================================================================ claims
Min(a, b) == IF a <= b THEN a ELSE b

\* the minute bucket of a time and the limit of a stored key, as the data
\* model states them
BucketOf(t) == t \div 60

LimitOfKey(id) ==
    IF "rate_limit" \in DOMAIN api_keys[id] THEN api_keys[id].rate_limit
    ELSE 100

Buckets == {BucketOf(rl_log[i].t) : i \in 1..Len(rl_log)}

CallsIn(id, b) ==
    {i \in 1..Len(rl_log) : rl_log[i].id = id /\ BucketOf(rl_log[i].t) = b}

AllowedIn(id, b) == {i \in CallsIn(id, b) : rl_log[i].ok}

\* the calls for the same key in the same bucket made before call i
EarlierInBucket(i) ==
    {j \in 1..(i - 1) : /\ rl_log[j].id = rl_log[i].id
                        /\ BucketOf(rl_log[j].t) = BucketOf(rl_log[i].t)}

\* C1: of the M check_rate_limit calls made for one key in one minute bucket
\* with limit N, in whatever order they run, exactly min(M, N) return Allowed
\* and the other M - min(M, N) return Throttled
C1_ExactAdmission ==
    \A id \in KeyIds, b \in Buckets :
        LET m == Cardinality(CallsIn(id, b))
            n == LimitOfKey(id)
        IN  /\ Cardinality(AllowedIn(id, b)) = Min(m, n)
            /\ Cardinality(CallsIn(id, b) \ AllowedIn(id, b)) = m - Min(m, n)

\* C1 witness: more callers than the limit, some admitted and some throttled
C1_Witness ==
    \E id \in KeyIds, b \in Buckets :
        /\ LimitOfKey(id) >= 1
        /\ Cardinality(CallsIn(id, b)) >= LimitOfKey(id) + 2
        /\ Cardinality(AllowedIn(id, b)) = LimitOfKey(id)

\* C2: in one minute bucket the first L calls for a key return Allowed and
\* the (L+1)-th returns Throttled; the first call of the following bucket
\* returns Allowed again when L >= 1
C2_WindowSequence ==
    \A i \in 1..Len(rl_log) :
        LET n == Cardinality(EarlierInBucket(i))
            L == LimitOfKey(rl_log[i].id)
        IN  /\ n < L => rl_log[i].ok
            /\ n = L => ~rl_log[i].ok
            /\ (n = 0 /\ L >= 1) => rl_log[i].ok

\* C2 witness: a key is throttled after L >= 1 allowed calls and its first
\* call in the following bucket is allowed
C2_Witness ==
    \E i, j \in 1..Len(rl_log) :
        /\ i < j
        /\ rl_log[i].id = rl_log[j].id
        /\ LimitOfKey(rl_log[i].id) >= 1
        /\ Cardinality(EarlierInBucket(i)) = LimitOfKey(rl_log[i].id)
        /\ ~rl_log[i].ok
        /\ BucketOf(rl_log[j].t) = BucketOf(rl_log[i].t) + 1
        /\ EarlierInBucket(j) = {}
        /\ rl_log[j].ok

\* ---- the request pipeline
Is401(r) ==
    /\ response[r] # None
    /\ response[r] = JSONResponse(401, "Invalid or inactive API key")

Is429(r) ==
    /\ response[r] # None
    /\ response[r] = JSONResponse(429, "Rate limit exceeded")

\* the usage log entries written for request r
LogCount(r) ==
    LET mine == {e \in BagToSet(usage_logs) : e.request_path = r}
    IN  BagCardinality([e \in mine |-> usage_logs[e]])

\* the rate checks made for request r
ChecksOf(r) == {i \in 1..Len(rl_log) : rl_log[i].req = r}

\* the earlier checks of the same key that lie less than 60 seconds back
EarlierInSpan(i) ==
    {j \in 1..(i - 1) : /\ rl_log[j].id = rl_log[i].id
                        /\ rl_log[i].t - rl_log[j].t < 60}

\* C3 as stated: the (L+1)-th of L+1 requests of one key that arrive within
\* a span of 60 seconds is answered 429 and gets no usage log entry, wherever
\* the span lies relative to the minute buckets
C3_AnySpan ==
    \A i \in 1..Len(rl_log) :
        Cardinality(EarlierInSpan(i)) = LimitOfKey(rl_log[i].id)
            => Is429(rl_log[i].req) /\ LogCount(rl_log[i].req) = 0

\* C3 amended: the (L+1)-th of L+1 requests of one key that arrive within
\* the same clock-aligned minute bucket is answered 429 and gets no usage
\* log entry
C3_SameBucket ==
    \A i \in 1..Len(rl_log) :
        Cardinality(EarlierInBucket(i)) = LimitOfKey(rl_log[i].id)
            => Is429(rl_log[i].req) /\ LogCount(rl_log[i].req) = 0

\* C3 witness: with L >= 1 the (L+1)-th request of a bucket was answered 429
C3_Witness ==
    \E i \in 1..Len(rl_log) :
        /\ LimitOfKey(rl_log[i].id) >= 1
        /\ Cardinality(EarlierInBucket(i)) = LimitOfKey(rl_log[i].id)
        /\ Is429(rl_log[i].req)

\* a stored record of this agent that is active, not expired at time t and
\* whose digest is that of the key
ValidRecords(api_key, t) ==
    {id \in KeyIds :
        /\ api_keys[id].agent_id = AGENT_ID
        /\ api_keys[id].status = "active"
        /\ api_keys[id].key_hash = Digest(api_key)
        /\ ~("expires_at" \in DOMAIN api_keys[id]
             /\ api_keys[id].expires_at < t)}

Forwarded(r) == pc[r] = "forwarding" \/ task[r] # "none"

PastUpdate ==
    {"log", "log_failed", "billing", "billing_update", "billing_set",
     "billing_failed", "tracked"}

C4_State ==
    /\ \A r \in Requests :
        /\ Forwarded(r) => calls[r] = 1
        /\ task[r] # "none" => pc[r] = "done" /\ response[r] \in DownResponses
        /\ task[r] = "tracked" => LogCount(r) = 1
    /\ \A id \in KeyIds :
        api_keys[id].total_calls =
            Cardinality({r \in Requests :
                /\ task[r] \in PastUpdate
                /\ key_doc[r].id = id})

C4_Step ==
    \A r \in Requests :
        ( /\ pc[r] = "idle" /\ pc'[r] # "idle"
          /\ IsApiKeyHeader(auth_header'[r])
          /\ ~store_failed'[r]
          /\ \E id \in ValidRecords(Tail(auth_header'[r]), now) :
                Cardinality(AllowedIn(id, BucketOf(now))) < LimitOfKey(id) )
        => pc'[r] = "forwarding" /\ calls'[r] = 1

\* C4: a request with the key of an active, unexpired record of this agent
\* and within its rate limit is forwarded; the downstream stage is invoked
\* exactly once and its response returned; once its accounting has run
\* without store failure it has exactly one usage log entry, and every
\* accounting run has raised the key's total_calls by exactly 1
C4_ValidRequest == [](C4_State) /\ [][C4_Step]_vars

\* C4 witness: a forwarded request whose accounting completed
C4_Witness ==
    \E r \in Requests :
        /\ task[r] = "tracked"
        /\ calls[r] = 1
        /\ LogCount(r) = 1
        /\ api_keys[key_doc[r].id].total_calls = 1

C5_Step ==
    \A r \in Requests :
        /\ ( /\ pc[r] = "idle" /\ pc'[r] # "idle"
             /\ IsApiKeyHeader(auth_header'[r])
             /\ key_doc'[r] = None )
           => /\ Is401(r)'
              /\ UNCHANGED <<rate_limit_cache, api_keys, usage_logs, summaries>>
        /\ Is401(r)' =>
              /\ calls'[r] = 0
              /\ req_state'[r] = EmptyMap
              /\ task'[r] = "none"
              /\ LogCount(r)' = 0
              /\ ChecksOf(r)' = {}

\* C5: a request whose API key fails validation is answered 401; the
\* downstream stage is never invoked for it, no identity is attached, the
\* window map and the store are left unchanged and no accounting is made
C5_Reject401 == [][C5_Step]_vars

\* C5 witness: a request with an API key was answered 401
C5_Witness ==
    \E r \in Requests :
        /\ IsApiKeyHeader(auth_header[r])
        /\ ~store_failed[r]
        /\ Is401(r)
        /\ pc[r] = "done"

C6_Step ==
    \A r \in Requests :
        /\ ( /\ pc[r] = "idle" /\ pc'[r] # "idle"
             /\ \E i \in ChecksOf(r)' : ~rl_log'[i].ok )
           => /\ Is429(r)'
              /\ UNCHANGED <<api_keys, usage_logs, summaries>>
        /\ Is429(r)' =>
              /\ calls'[r] = 0
              /\ req_state'[r] = EmptyMap
              /\ task'[r] = "none"
              /\ LogCount(r)' = 0

\* C6: a request whose rate check returns Throttled is answered 429; the
\* downstream stage is never invoked for it, no identity is attached and no
\* accounting (total_calls, usage log, billing summary) is made
C6_Reject429 == [][C6_Step]_vars

\* C6 witness: a request with a valid key was throttled and answered 429
C6_Witness ==
    \E r \in Requests :
        /\ key_doc[r] # None
        /\ \E i \in ChecksOf(r) : ~rl_log[i].ok
        /\ Is429(r)
        /\ pc[r] = "done"

\* C7 as stated: a validation whose store query failed is answered 500, not
\* the 401 of an unknown key
C7_StoreFailureIs500 ==
    \A r \in Requests :
        store_failed[r] => response[r] # None /\ response[r].status_code = 500

\* ---- validate_api_key
Agents == {api_keys[id].agent_id : id \in KeyIds}

\* what validate_api_key returns for the stored record id
RecordOf(id) == [id |-> id] @@ api_keys[id]

HasExpiry(id) == "expires_at" \in DOMAIN api_keys[id]

InThePast(id) == HasExpiry(id) /\ api_keys[id].expires_at < now

Live(id) == api_keys[id].status = "active" /\ ~InThePast(id)

OneCharApart(a, b) ==
    /\ Len(a) = Len(b)
    /\ Cardinality({i \in 1..Len(a) : a[i] # b[i]}) = 1

BearerOf(api_key) == <<"Bearer ">> \o api_key

\* C8: for an active record of the requested service whose digest is that of
\* the candidate key, validate returns None when expires_at is set and in
\* the past at the call, and returns the record when it has no expires_at
C8_Expiry ==
    \A id \in KeyIds, k \in AllKeys :
        (api_keys[id].status = "active" /\ api_keys[id].key_hash = Digest(k))
        => LET got == validate_api_key(api_keys, k, api_keys[id].agent_id, now)
           IN  /\ InThePast(id) => got = None
               /\ ~HasExpiry(id) => got = RecordOf(id)

\* C8 witness: the key of the active record k2 was refused after k2's
\* expires_at, and the key of k1, which has no expires_at, was accepted then
C8_Witness ==
    \E i, j \in 1..Len(val_log) :
        /\ val_log[i].api_key = Secret2
        /\ val_log[i].agent_id = AGENT_ID
        /\ val_log[i].t > api_keys["k2"].expires_at
        /\ api_keys["k2"].status = "active"
        /\ ~val_log[i].failed
        /\ val_log[i].got = None
        /\ val_log[j].api_key = Secret1
        /\ val_log[j].t > api_keys["k2"].expires_at
        /\ val_log[j].got = RecordOf("k1")

\* C9 as stated: validate returns the record for the correct secret of a
\* live record and None for every secret one character apart from it
C9_AnyMutationNotFound ==
    \A id \in KeyIds, k \in AllKeys :
        (Live(id) /\ api_keys[id].key_hash = Digest(k))
        => /\ validate_api_key(api_keys, k, api_keys[id].agent_id, now)
                 = RecordOf(id)
           /\ \A m \in AllKeys :
                 OneCharApart(k, m)
                 => validate_api_key(api_keys, m, api_keys[id].agent_id, now)
                        = None

\* the other live records of the same service whose secret is m
OtherLiveWith(id, m) ==
    {o \in KeyIds \ {id} :
        /\ Live(o)
        /\ api_keys[o].agent_id = api_keys[id].agent_id
        /\ api_keys[o].key_hash = Digest(m)}

\* C9 amended: validate returns the record for the correct secret of a live
\* record; for a secret one character apart it returns None, unless that
\* secret is the secret of another live record of the service, which is
\* then returned; it never returns the original record
C9_HashSensitivity ==
    \A id \in KeyIds, k \in AllKeys :
        (Live(id) /\ api_keys[id].key_hash = Digest(k))
        => /\ validate_api_key(api_keys, k, api_keys[id].agent_id, now)
                 = RecordOf(id)
           /\ \A m \in AllKeys :
                 OneCharApart(k, m)
                 => LET got == validate_api_key(api_keys, m,
                                                api_keys[id].agent_id, now)
                    IN  IF OtherLiveWith(id, m) = {}
                        THEN got = None
                        ELSE got # None /\ got.id \in OtherLiveWith(id, m)

\* C9 witness: the correct secret of a live record returned the record and
\* a secret one character apart, itself no stored secret, returned None
C9_Witness ==
    \E i, j \in 1..Len(val_log), id \in KeyIds :
        /\ Live(id)
        /\ api_keys[id].key_hash = Digest(val_log[i].api_key)
        /\ val_log[i].agent_id = api_keys[id].agent_id
        /\ val_log[i].got = RecordOf(id)
        /\ OneCharApart(val_log[i].api_key, val_log[j].api_key)
        /\ val_log[j].agent_id = api_keys[id].agent_id
        /\ \A o \in KeyIds : api_keys[o].key_hash # Digest(val_log[j].api_key)
        /\ ~val_log[j].failed
        /\ val_log[j].got = None

C10_Step ==
    \A r \in Requests :
        ( /\ pc[r] = "idle" /\ pc'[r] # "idle"
          /\ IsApiKeyHeader(auth_header'[r]) )
        => /\ key_doc'[r] # None
              => /\ key_doc'[r].status = "active"
                 /\ key_doc'[r].agent_id = AGENT_ID
                 /\ key_doc'[r] = RecordOf(key_doc'[r].id)
           /\ ( \E id \in KeyIds :
                   /\ api_keys[id].key_hash = Digest(Tail(auth_header'[r]))
                   /\ api_keys[id].status = "revoked" )
              => key_doc'[r] = None /\ Is401(r)'

\* C10: the record validate returns to the middleware is active and of the
\* requested service, whatever the candidate's digest equals; a request
\* that starts once the record of its key is revoked gets None and 401
C10_ActiveOnly == [][C10_Step]_vars

\* C10 witness: the key of a revoked record that cannot expire was answered
\* 401 although the store query succeeded
C10_Witness ==
    \E r \in Requests, id \in KeyIds :
        /\ IsApiKeyHeader(auth_header[r])
        /\ api_keys[id].key_hash = Digest(Tail(auth_header[r]))
        /\ api_keys[id].agent_id = AGENT_ID
        /\ api_keys[id].status = "revoked"
        /\ ~HasExpiry(id)
        /\ ~store_failed[r]
        /\ Is401(r)

\* ---- requests without an API key
\* the request has been taken up by __call__
Started(r) == pc[r] # "idle"

\* the middleware built the response itself (401, 429 or 500)
ByMiddleware(r) == response[r] # None /\ "detail" \in DOMAIN response[r]

\* nothing of the API-key path has happened for request r
Untouched(r) ==
    /\ key_doc[r] = None
    /\ ~store_failed[r]
    /\ ChecksOf(r) = {}
    /\ req_state[r] = EmptyMap
    /\ task[r] = "none"
    /\ usage_data[r] = None
    /\ LogCount(r) = 0
    /\ ~ByMiddleware(r)

\* request r is taken up in this step and goes straight to the downstream
\* stage, with no other effect
StraightThrough(r) ==
    /\ pc'[r] = "passthrough"
    /\ calls'[r] = 1
    /\ rate_limit_cache' = rate_limit_cache
    /\ rl_log' = rl_log
    /\ api_keys' = api_keys
    /\ usage_logs' = usage_logs
    /\ summaries' = summaries

C11_State ==
    \A r \in Requests :
        (Started(r) /\ auth_header[r] = <<>>)
        => calls[r] = 1 /\ Untouched(r)

C11_Step ==
    \A r \in Requests :
        (~Started(r) /\ Started(r)' /\ auth_header'[r] = <<>>)
        => StraightThrough(r)

\* C11: a request with no Authorization header goes to the downstream stage,
\* which is invoked exactly once; no identity is attached, no validation
\* and no rate check is made, the window map is unchanged and no usage is
\* ever written for it
C11_NoHeader == [](C11_State) /\ [][C11_Step]_vars

\* C11 witness: a request without header got the downstream response
C11_Witness ==
    \E r \in Requests :
        /\ auth_header[r] = <<>>
        /\ pc[r] = "done"
        /\ calls[r] = 1
        /\ response[r] \in DownResponses
        /\ \E q \in Requests : q # r /\ task[q] = "tracked"

C12_State ==
    \A r \in Requests :
        (Started(r) /\ auth_header[r] \in NonKeyHeaders)
        => /\ calls[r] = 1
           /\ Untouched(r)
           /\ response[r] # None => response[r] \in CreateResponses

C12_Step ==
    \A r \in Requests :
        (~Started(r) /\ Started(r)' /\ auth_header'[r] \in NonKeyHeaders)
        => StraightThrough(r)

\* C12: an Authorization value that does not begin with "Bearer ak_" is no
\* API-key attempt: the request goes to the downstream stage exactly as one
\* with no header, and the middleware never answers it 401, 429 or 500
\* itself
C12_OtherSchemes == [](C12_State) /\ [][C12_Step]_vars

\* C12 witness: a stored key sent under another scheme was passed through
\* and answered by the downstream stage
C12_Witness ==
    \E r \in Requests :
        /\ auth_header[r] = <<"Basic ">> \o Secret1
        /\ pc[r] = "done"
        /\ response[r] \in CreateResponses

\* C13 as stated: a request to POST /api/conversation/create without an API
\* key is answered 401, never the handler's 200
C13_NoKeyRejected ==
    \A r \in Requests :
        (pc[r] = "done" /\ auth_header[r] = <<>>)
        => response[r].status_code = 401

\* the malformed bearer values: wrong prefixes, the empty key, the bare
\* prefix, a too short and a too long key, invalid characters, spaces
MalformedBearer ==
    { h \in NonKeyHeaders \cup MalformedKeyHeaders :
        Len(h) >= 1 /\ h[1] = "Bearer " }

\* C14 as stated: every malformed bearer value sent to POST
\* /api/conversation/create is answered 401
C14_MalformedRejected ==
    \A r \in Requests :
        (pc[r] = "done" /\ auth_header[r] \in MalformedBearer)
        => response[r].status_code = 401

\* ---- the usage tracker and the request path
FailedTasks == {"update_failed", "log_failed", "billing_failed"}

\* the track_usage task of request r takes a step
TaskStep(r) == task[r] # "none" /\ task'[r] # task[r]

\* how __call__ must treat a header at this moment: by the stored records,
\* the clock and the rate checks made so far
Expected(h, failed) ==
    IF h = <<>> THEN "passthrough"
    ELSE IF failed \/ ValidRecords(Tail(h), now) = {} THEN "401"
    ELSE LET id == CHOOSE x \in ValidRecords(Tail(h), now) : TRUE
         IN  IF Cardinality(AllowedIn(id, BucketOf(now))) < LimitOfKey(id)
             THEN "forwarding" ELSE "429"

C15_State ==
    \A r \in Requests :
        task[r] \in FailedTasks
        => /\ pc[r] = "done"
           /\ response[r] \in DownResponses
           /\ response[r].status_code = usage_data[r].response_status

C15_Step ==
    \A r \in Requests :
        /\ TaskStep(r)
           => /\ response' = response
              /\ pc' = pc
              /\ rate_limit_cache' = rate_limit_cache
        /\ ( /\ ~Started(r) /\ Started(r)'
             /\ \E q \in Requests : task[q] \in FailedTasks )
           => LET want == Expected(auth_header'[r], store_failed'[r])
              IN  IF want \in {"passthrough", "forwarding"}
                  THEN pc'[r] = want
                  ELSE /\ pc'[r] = "done"
                       /\ want = "401" => Is401(r)'
                       /\ want = "429" => Is429(r)'

\* C15: whichever store call of the usage tracker fails, the request keeps
\* the downstream response it was given, with its status, and a request
\* taken up after the failure is treated as if no failure had happened
C15_TrackerSwallows == [](C15_State) /\ [][C15_Step]_vars

\* C15 witness: the tracking task of a request failed while the request kept
\* its 200, and a request checked after it was forwarded and answered 200
C15_Witness ==
    \E q, r \in Requests :
        /\ q < r
        /\ task[q] \in FailedTasks
        /\ response[q].status_code = 200
        /\ key_doc[r] # None
        /\ pc[r] = "done"
        /\ response[r].status_code = 200
        /\ \E i \in ChecksOf(q), j \in ChecksOf(r) : i < j

C16_State ==
    \A r \in Requests :
        /\ task[r] # "none" => pc[r] = "done" /\ response[r] \in DownResponses
        /\ pc[r] = "forwarding"
           => /\ task[r] = "none"
              /\ ENABLED (\E resp \in DownResponses : DownstreamReturns(r, resp))

C16_Step ==
    \A r \in Requests :
        (task'[r] # task[r] /\ storeVars' # storeVars)
        => pc[r] = "done" /\ response[r] \in DownResponses

\* C16: the response of a request on the API-key path is returned before
\* the first store write of its track_usage, and returning it is possible
\* whatever the store does with the accounting writes
C16_ReturnFirst == [](C16_State) /\ [][C16_Step]_vars

\* C16 witness: a response has been returned while the accounting of the
\* request has written nothing yet
C16_Witness ==
    \E r \in Requests :
        /\ pc[r] = "done"
        /\ response[r] \in DownResponses
        /\ task[r] = "update"
        /\ api_keys[key_doc[r].id].total_calls = 0
        /\ usage_logs = EmptyBag

\* ---- counters under concurrency
\* the cost-bearing usage events handed to track_usage so far
CostEvents ==
    {r \in Requests : usage_data[r] # None /\ "cost_usd" \in DOMAIN usage_data[r]
                                          /\ usage_data[r].cost_usd > 0}

RECURSIVE TokensOf(_)
TokensOf(S) ==
    IF S = {} THEN 0
    ELSE LET r == CHOOSE x \in S : TRUE
         IN  (IF "tokens_used" \in DOMAIN usage_data[r]
              THEN usage_data[r].tokens_used ELSE 0) + TokensOf(S \ {r})

\* C17 as stated: once the N cost-bearing events of the service have all
\* completed, in whatever order their read and update-or-create steps ran,
\* the summary has totalMessages = N, apiKeyUsage = N and totalTokens the sum
\* of the events' tokens
C17_BillingAdditive ==
    (CostEvents # {} /\ \A r \in CostEvents : task[r] = "tracked")
    => /\ AGENT_ID \in DOMAIN summaries
       /\ summaries[AGENT_ID].totalMessages = Cardinality(CostEvents)
       /\ summaries[AGENT_ID].apiKeyUsage = Cardinality(CostEvents)
       /\ summaries[AGENT_ID].totalTokens = TokensOf(CostEvents)

\* the track_usage runs for key id whose counter update succeeded
UpdatedRuns(id) ==
    {r \in Requests :
        /\ key_doc[r] # None /\ key_doc[r].id = id
        /\ task[r] \notin {"none", "update", "update_failed"}}

C18_State ==
    \A id \in KeyIds : api_keys[id].total_calls = Cardinality(UpdatedRuns(id))

C18_Step ==
    \A r \in Requests :
        (task[r] = "update" /\ task'[r] = "log")
        => \A id \in KeyIds :
              api_keys'[id].total_calls =
                  api_keys[id].total_calls + (IF id = key_doc[r].id THEN 1 ELSE 0)

\* C18: each track_usage run whose counter update succeeds raises the
\* total_calls of its key by exactly 1, so after K such runs for a key, in
\* whatever order they and the validations ran, total_calls has grown by K
C18_AtomicIncrement == [](C18_State) /\ [][C18_Step]_vars

\* C18 witness: two runs for one key have updated its counter
C18_Witness ==
    \E id \in KeyIds :
        /\ Cardinality(UpdatedRuns(id)) = 2
        /\ api_keys[id].total_calls = 2

\* ---- identity
\* the identity of the stored record id
IdentityOf(id) ==
    [api_key_id |-> id,
     api_key_user_id |->
         IF "created_by" \in DOMAIN api_keys[id]
         THEN api_keys[id].created_by ELSE "None",
     organization_id |->
         IF "organization_id" \in DOMAIN api_keys[id]
         THEN api_keys[id].organization_id ELSE "None",
     auth_method |-> "api_key"]

\* C19: whenever the downstream stage has been invoked for a request with an
\* API key, request.state carries the key id, created_by, organization id
\* and auth method 'api_key' of the record stored under the key's digest;
\* identity is attached only after validation returned a record and the
\* rate check allowed the request, never on a request answered 401 or 429
C19_IdentityAttached ==
    \A r \in Requests :
        /\ (auth_header[r] # <<>> /\ calls[r] > 0)
           => \E id \in KeyIds :
                 /\ api_keys[id].key_hash = Digest(Tail(auth_header[r]))
                 /\ req_state[r] = IdentityOf(id)
        /\ req_state[r] # EmptyMap
           => /\ key_doc[r] # None
              /\ \E i \in ChecksOf(r) : rl_log[i].ok
        /\ (Is401(r) \/ Is429(r)) => req_state[r] = EmptyMap /\ calls[r] = 0

\* C19 witness: the downstream stage is running for a request with the key
\* of k1 and the request carries k1's identity
C19_Witness ==
    \E r \in Requests :
        /\ pc[r] = "forwarding"
        /\ req_state[r] = [api_key_id |-> "k1", api_key_user_id |-> "u1",
                           organization_id |-> "o1", auth_method |-> "api_key"]

\* ---- responses without usage headers
\* the usage log entries written for request r
EntriesOf(r) == {e \in BagToSet(usage_logs) : e.request_path = r}

\* C20: when the downstream response carries neither X-Token-Count nor
\* X-Cost-USD the middleware returns that response, builds none of its own,
\* and the usage event is recorded with tokens_used = 0 and cost_usd = 0
C20_NoUsageHeaders ==
    \A r \in Requests :
        (task[r] # "none" /\ response[r].headers = EmptyMap)
        => /\ pc[r] = "done"
           /\ response[r] \in CreateResponses
           /\ \A e \in EntriesOf(r) :
                 /\ e.tokens_used = 0
                 /\ e.cost_usd = 0
                 /\ e.response_status = response[r].status_code
           /\ task[r] = "tracked" => LogCount(r) = 1
           /\ summaries = EmptyMap

\* C20 witness: a 200 without usage headers was returned and its usage
\* event recorded with zero tokens and zero cost
C20_Witness ==
    \E r \in Requests :
        /\ task[r] = "tracked"
        /\ response[r] = [status_code |-> 200, headers |-> EmptyMap]
        /\ \E e \in EntriesOf(r) :
              e.tokens_used = 0 /\ e.cost_usd = 0 /\ e.response_status = 200

\* ---- what a rejection tells the caller
\* why the key of request r is no valid key of this service: by the record
\* stored under its digest, if any
RejectReason(r) ==
    LET hits == {id \in KeyIds :
                    api_keys[id].key_hash = Digest(Tail(auth_header[r]))}
    IN  IF hits = {} THEN "unknown"
        ELSE LET id == CHOOSE x \in hits : TRUE
             IN  IF api_keys[id].agent_id # AGENT_ID THEN "other service"
                 ELSE IF api_keys[id].status # "active" THEN "revoked"
                 ELSE IF InThePast(id) THEN "expired"
                 ELSE "none"

Rejected(r) ==
    /\ pc[r] = "done"
    /\ IsApiKeyHeader(auth_header[r])
    /\ key_doc[r] = None

\* C21: the responses of any two requests with 'Bearer ak_' tokens that
\* were rejected at validation are the same in status code and body,
\* whatever the reasons of the two rejections
C21_SameRejection ==
    \A q, r \in Requests :
        (Rejected(q) /\ Rejected(r))
        => /\ response[q].status_code = 401
           /\ response[q] = response[r]

\* C21 witness: two requests were rejected, one for a revoked key and one
\* for an expired, an unknown or another service's key
C21_Witness ==
    \E q, r \in Requests :
        /\ Rejected(q) /\ ~store_failed[q] /\ RejectReason(q) = "revoked"
        /\ Rejected(r) /\ ~store_failed[r]
        /\ RejectReason(r) \in {"expired", "unknown", "other service"}
        /\ response[q] = response[r]

\* ---- the limiter's counter and its housekeeping
LastCall == rl_log[Len(rl_log)]

CounterOf(cache, id, b) ==
    IF <<id, b>> \in DOMAIN cache THEN cache[<<id, b>>] ELSE 0

C22_Step ==
    Len(rl_log') = Len(rl_log) + 1
    => LET e == rl_log'[Len(rl_log')]
           b == BucketOf(e.t)
           before == CounterOf(rate_limit_cache, e.id, b)
           after == CounterOf(rate_limit_cache', e.id, b)
       IN  /\ before >= LimitOfKey(e.id) => (~e.ok /\ after = before)
           /\ before < LimitOfKey(e.id) => (e.ok /\ after = before + 1)

\* C22: a check_rate_limit call that finds the counter of its key and bucket
\* at or above the limit returns Throttled and leaves the counter's value as
\* it was; one that finds it below the limit returns Allowed and increases
\* it by exactly 1
C22_CounterFrame == [][C22_Step]_vars

\* C22 witness: the last call was throttled at a counter equal to a limit of
\* at least 1, after admitted calls had raised the counter one by one
C22_Witness ==
    /\ rl_log # <<>>
    /\ ~LastCall.ok
    /\ LimitOfKey(LastCall.id) >= 1
    /\ CounterOf(rate_limit_cache, LastCall.id, BucketOf(LastCall.t))
          = LimitOfKey(LastCall.id)
    /\ Cardinality(AllowedIn(LastCall.id, BucketOf(LastCall.t)))
          = LimitOfKey(LastCall.id)

\* C23: after any check_rate_limit call made in bucket b, Allowed or
\* Throttled and for whichever key, the window map holds no entry of a
\* bucket below b - 1
C23_HousekeepingAlways ==
    rl_log # <<>>
    => \A ck \in DOMAIN rate_limit_cache :
           ~(ck[2] < BucketOf(LastCall.t) - 1)

\* the same after the calls that returned Allowed only
C23_HousekeepingWhenAllowed ==
    (rl_log # <<>> /\ LastCall.ok)
    => \A ck \in DOMAIN rate_limit_cache :
           ~(ck[2] < BucketOf(LastCall.t) - 1)

\* C24: with a fixed limit L and a clock that never goes back, the Allowed
\* decisions for one key are at most L in any one bucket and at most 2 * L
\* over any two consecutive buckets
C24_TwoBuckets ==
    \A id \in KeyIds, b \in Buckets :
        /\ Cardinality(AllowedIn(id, b)) <= LimitOfKey(id)
        /\ Cardinality(AllowedIn(id, b)) + Cardinality(AllowedIn(id, b + 1))
             <= 2 * LimitOfKey(id)

\* C24 witness: a key with a limit of at least 1 was admitted 2 * L times
\* over two consecutive buckets and throttled in one of them
C24_Witness ==
    \E id \in KeyIds, b \in Buckets :
        /\ LimitOfKey(id) >= 1
        /\ Cardinality(AllowedIn(id, b)) + Cardinality(AllowedIn(id, b + 1))
             = 2 * LimitOfKey(id)
        /\ \E i \in CallsIn(id, b) \cup CallsIn(id, b + 1) : ~rl_log[i].ok

\* ---- validate_api_key: the record chosen and the state left alone
\* the positions in store order of the active records of the agent that
\* carry the digest of the key and are not expired at the clock
LiveMatches(api_key, agent_id) ==
    {i \in 1..Len(KeyOrder) :
        /\ api_keys[KeyOrder[i]].agent_id = agent_id
        /\ api_keys[KeyOrder[i]].status = "active"
        /\ api_keys[KeyOrder[i]].key_hash = Digest(api_key)
        /\ ~InThePast(KeyOrder[i])}

FirstOf(S) == CHOOSE i \in S : \A j \in S : i <= j

C25_Step ==
    (Len(val_log') = Len(val_log) + 1 /\ ~val_log'[Len(val_log')].failed)
    => LET e == val_log'[Len(val_log')]
           live == LiveMatches(e.api_key, e.agent_id)
       IN  IF live = {} THEN e.got = None
           ELSE e.got = RecordOf(KeyOrder[FirstOf(live)])

\* C25: a validate_api_key call whose query succeeds returns the first
\* record in store order that is active, of the agent, carries the digest
\* and is not expired, also when an expired record with the same digest
\* precedes it, and None when there is no such record
C25_FirstLiveMatch == [][C25_Step]_vars

C28_Step ==
    Len(val_log') = Len(val_log) + 1
    => /\ api_keys' = api_keys
       /\ usage_logs' = usage_logs
       /\ summaries' = summaries
       /\ rate_limit_cache' = rate_limit_cache

\* C28: a validate_api_key call, whether it returns a record or None and
\* whether or not its query raised, leaves the key records, the usage log,
\* the billing summaries and the window map as they were
C28_NoSideEffect == [][C28_Step]_vars

\* C28 witness: one call returned a record and one, whose query did not
\* raise, returned None, and the store is the initial one
C28_Witness ==
    /\ \E i, j \in 1..Len(val_log) :
           /\ val_log[i].got # None
           /\ ~val_log[j].failed /\ val_log[j].got = None
    /\ api_keys = InitKeys(PipelineLimit)
    /\ usage_logs = EmptyBag
    /\ summaries = EmptyMap
    /\ rate_limit_cache = EmptyMap

\* ---- _secure_compare on its own
\* C26: a _secure_compare call on two strings of the same length passes
\* through the loop body once for every position, wherever the first
\* difference is: the number of steps is the length
C26_NoShortCircuit ==
    (cmp # None /\ Len(cmp.a) = Len(cmp.b)) => cmp.steps = Len(cmp.a)

\* C26 witness: two strings of the greatest length that differ at the
\* first position were compared in as many steps as they are long
C26_Witness ==
    /\ cmp # None
    /\ Len(cmp.a) = MaxCompareLen /\ Len(cmp.b) = MaxCompareLen
    /\ cmp.a[1] # cmp.b[1]
    /\ cmp.steps = MaxCompareLen
    /\ ~cmp.equal

\* C27: _secure_compare(a, b) is True exactly when a and b are the same
\* string, the empty string and strings of different lengths included
C27_EqualIffSame == cmp # None => (cmp.equal <=> cmp.a = cmp.b)

\* C27 witness: a string and a proper prefix of it, the empty string
\* possibly, compared unequal
C27_Witness ==
    /\ cmp # None
    /\ Len(cmp.a) < Len(cmp.b)
    /\ cmp.a = SubSeq(cmp.b, 1, Len(cmp.a))
    /\ ~cmp.equal

\* ---- the order of the stages of one request
\* an admitted rate check was made for request r
Admitted(r) == \E i \in ChecksOf(r) : rl_log[i].ok

\* the downstream stage has produced the response of request r
Answered(r) == response[r] # None /\ ~ByMiddleware(r)

C29_State ==
    \A r \in Requests :
        IsApiKeyHeader(auth_header[r])
        => /\ ChecksOf(r) # {}
              => /\ key_doc[r] # None
                 /\ \A i \in ChecksOf(r) : rl_log[i].id = key_doc[r].id
           /\ req_state[r] # EmptyMap => Admitted(r)
           /\ calls[r] > 0 => req_state[r] = Identity(key_doc[r])
           /\ Answered(r) => calls[r] = 1
           /\ task[r] # "none"
              => /\ Answered(r)
                 /\ usage_data[r].response_status = response[r].status_code

C29_Step ==
    /\ rate_limit_cache' # rate_limit_cache
       => \E r \in Requests :
              /\ ~Started(r)
              /\ key_doc'[r] # None
              /\ ChecksOf(r)' = {Len(rl_log')}
    /\ \A r \in Requests :
           /\ (IsApiKeyHeader(auth_header'[r]) /\ calls'[r] # calls[r])
              => Admitted(r)' /\ ~Answered(r)'
           /\ (task[r] = "none" /\ task'[r] # "none")
              => pc[r] = "forwarding" /\ calls[r] = 1 /\ Answered(r)'

\* C29: for one request with an API key the rate-limit counter is touched
\* only in a check made with the record validation returned, the identity
\* is attached and the downstream stage started only after an admitted
\* check, the downstream stage answers only once started, and track_usage
\* starts only when the downstream stage has produced the response whose
\* status it records
C29_StageOrder == [](C29_State) /\ [][C29_Step]_vars

\* C29 witness: a request went through all five stages, its accounting at
\* the end, while another was stopped at the rate check
C29_Witness ==
    \E q, r \in Requests :
        /\ key_doc[r] # None /\ Admitted(r)
        /\ req_state[r] = Identity(key_doc[r])
        /\ calls[r] = 1 /\ Answered(r)
        /\ task[r] = "tracked"
        /\ key_doc[q] # None /\ ~Admitted(q) /\ Is429(q)
        /\ calls[q] = 0 /\ task[q] = "none"

\* ---- accounting once for every forwarded request
\* track_usage of request r has run to its end: past its last store call,
\* or left at the store call that failed
Ran(r) == task[r] = "tracked" \/ task[r] \in FailedTasks

C30_State ==
    \A r \in Requests :
        /\ LogCount(r) <= 1
        /\ \A e \in BagToSet(usage_logs) :
               e.request_path = r
               => e.response_status = response[r].status_code
        /\ task[r] = "tracked" => LogCount(r) = 1

C30_Step ==
    \A r \in Requests :
        /\ Ran(r) => task'[r] = task[r]
        /\ (task'[r] = "update" /\ task[r] # "update") => task[r] = "none"

\* C30: when the task of a request is scheduled fairly, every request with
\* a valid key that was admitted and answered by the downstream stage, with
\* whatever status, eventually has its track_usage run to its end; a run
\* whose store calls succeed leaves exactly one usage log entry with the
\* status of the response, and no request starts track_usage twice or has
\* two entries
C30_AccountedOnce ==
    /\ [](C30_State)
    /\ [][C30_Step]_vars
    /\ \A r \in Requests :
           (key_doc[r] # None /\ Answered(r)) ~> Ran(r)

\* C30 witness: two requests, one answered 200 and one answered 500 by the
\* downstream stage, each with its track_usage run and its one log entry
C30_Witness ==
    \E q, r \in Requests :
        /\ key_doc[q] # None /\ Answered(q) /\ response[q].status_code = 200
        /\ key_doc[r] # None /\ Answered(r) /\ response[r].status_code = 500
        /\ task[q] = "tracked" /\ LogCount(q) = 1
        /\ task[r] = "tracked" /\ LogCount(r) = 1

\* ---- the billing rollup
BillingLabels == {"billing", "billing_update", "billing_set", "billing_failed"}

C31_State ==
    /\ CostEvents = {} => summaries = EmptyMap
    /\ \A r \in Requests \ CostEvents :
           /\ task[r] \notin BillingLabels
           /\ task[r] = "tracked"
              => /\ LogCount(r) = 1
                 /\ api_keys[key_doc[r].id].total_calls >= 1

C31_Step ==
    \A r \in Requests \ CostEvents : TaskStep(r) => summaries' = summaries

\* C31: a track_usage run whose usage has no cost_usd or a cost_usd of 0
\* never enters the billing rollup and leaves the billing summaries as they
\* are, creating none, while its counter update and its log entry are made
C31_CostBearingOnly == [](C31_State) /\ [][C31_Step]_vars

\* C31 witness: a run for a response with a cost header of 0 and a run for
\* a response without cost header have both completed, and there is no
\* billing summary
C31_Witness ==
    \E q, r \in Requests :
        /\ task[q] = "tracked" /\ task[r] = "tracked"
        /\ "cost_usd" \in DOMAIN usage_data[q] /\ usage_data[q].cost_usd = 0
        /\ "cost_usd" \notin DOMAIN usage_data[r]
        /\ LogCount(q) = 1 /\ LogCount(r) = 1
        /\ summaries = EmptyMap

\* the tokens and the cost the downstream response of request r declared
TokensDeclared(r) == ParseNumber(downstream[r].headers.XTokenCount)

CostDeclared(r) == ParseNumber(downstream[r].headers.XCostUSD)

C32_Step ==
    \A r \in Requests :
        LET a == AGENT_ID
        IN  /\ (task[r] = "billing" /\ task'[r] = "billing_set")
               => a \notin DOMAIN summaries
            /\ (task[r] = "billing" /\ task'[r] = "billing_update")
               => a \in DOMAIN summaries
            /\ (task[r] = "billing_set" /\ task'[r] = "tracked")
               => /\ a \in DOMAIN summaries'
                  /\ summaries'[a].totalMessages = 1
                  /\ summaries'[a].totalTokens = TokensDeclared(r)
                  /\ summaries'[a].totalCost = CostDeclared(r)
                  /\ summaries'[a].apiKeyUsage = 1
                  /\ summaries'[a].webUsage = 0
            /\ (task[r] = "billing_update" /\ task'[r] = "tracked")
               => /\ a \in DOMAIN summaries /\ a \in DOMAIN summaries'
                  /\ summaries'[a].totalMessages = summaries[a].totalMessages + 1
                  /\ summaries'[a].totalTokens
                       = summaries[a].totalTokens + TokensDeclared(r)
                  /\ summaries'[a].totalCost
                       = summaries[a].totalCost + CostDeclared(r)
                  /\ summaries'[a].apiKeyUsage = summaries[a].apiKeyUsage + 1
                  /\ summaries'[a].webUsage = summaries[a].webUsage
                  /\ summaries'[a].createdAt = summaries[a].createdAt

\* C32: a cost-bearing event whose read finds no billing summary takes the
\* creation path and writes totalMessages = 1, totalTokens = its tokens,
\* totalCost = its cost, apiKeyUsage = 1 and webUsage = 0; one whose read
\* finds a summary takes the update path and adds 1, its tokens, its cost
\* and 1 to those four counters, leaving webUsage and createdAt as they were
C32_CreateThenIncrement == [][C32_Step]_vars

\* C32 witness: the summary was created by one event and updated by a
\* second at a later time
C32_Witness ==
    /\ AGENT_ID \in DOMAIN summaries
    /\ summaries[AGENT_ID].totalMessages = 2
    /\ summaries[AGENT_ID].apiKeyUsage = 2
    /\ summaries[AGENT_ID].webUsage = 0
    /\ summaries[AGENT_ID].createdAt < summaries[AGENT_ID].updatedAt
    /\ \A r \in Requests : task[r] = "tracked"

\* ---- the usage log and the call counter over time
C33_Step ==
    /\ usage_logs \sqsubseteq usage_logs'
    /\ usage_logs' # usage_logs
       => /\ BagCardinality(usage_logs') = BagCardinality(usage_logs) + 1
          /\ \E r \in Requests : task[r] = "log" /\ task'[r] # task[r]

\* C33: every step of the validator, the limiter, the tracker and the
\* middleware leaves each usage log entry written before in the log with
\* the same field values; the log changes only by one entry being added by
\* a track_usage task
C33_AppendOnly == [][C33_Step]_vars

\* C33 witness: the log holds the entries of two requests for the same key,
\* written at different times
C33_Witness ==
    \E d, e \in BagToSet(usage_logs) :
        /\ d.request_path # e.request_path
        /\ d.api_key_id = e.api_key_id
        /\ d.timestamp < e.timestamp

C34_Step ==
    /\ \A id \in KeyIds :
           /\ api_keys'[id].total_calls >= api_keys[id].total_calls
           /\ api_keys'[id].total_calls # api_keys[id].total_calls
              => /\ api_keys'[id].total_calls = api_keys[id].total_calls + 1
                 /\ \E r \in Requests :
                        /\ task[r] = "update" /\ task'[r] = "log"
                        /\ key_doc[r].id = id
    /\ (pc' # pc \/ rate_limit_cache' # rate_limit_cache)
       => \A id \in KeyIds :
              api_keys'[id].total_calls = api_keys[id].total_calls

\* C34: the total_calls of a key record never decreases and changes only
\* by the counter update of a track_usage task for that key, by 1; the
\* steps of __call__ (validation, rate check, 401, 429, 500, pass-through,
\* forwarding and returning) leave it as it is
C34_CounterMonotone == [][C34_Step]_vars

\* C34 witness: one request for a key was accounted and a second for the
\* same key was answered 429, and the counter of the key stands at 1
C34_Witness ==
    \E q, r \in Requests :
        /\ task[q] = "tracked"
        /\ Is429(r)
        /\ key_doc[r].id = key_doc[q].id
        /\ api_keys[key_doc[q].id].total_calls = 1

\* ---- the counts of the window map
\* the largest limit passed so far in a check for key id
RECURSIVE MaxOf(_)
MaxOf(S) ==
    IF S = {} THEN 0
    ELSE LET x == CHOOSE y \in S : TRUE
             m == MaxOf(S \ {x})
         IN  IF x > m THEN x ELSE m

LargestLimit(id) ==
    MaxOf({rl_log[i].limit : i \in {j \in 1..Len(rl_log) : rl_log[j].id = id}})

\* C35: every entry of the window map holds a count that is at least 0 and
\* at most the largest limit passed so far in a check for its key, hence at
\* most L when every check for the key passes the same limit L
C35_CountBounded ==
    \A ck \in DOMAIN rate_limit_cache :
        /\ rate_limit_cache[ck] \in Nat
        /\ rate_limit_cache[ck] <= LargestLimit(ck[1])

\* C35 witness: the count of a bucket stands at the largest limit passed,
\* after a later check with a smaller limit was throttled in that bucket
C35_Witness ==
    \E i, j \in 1..Len(rl_log) :
        /\ i < j
        /\ BucketOf(rl_log[i].t) = BucketOf(rl_log[j].t)
        /\ rl_log[j].limit < rl_log[i].limit
        /\ ~rl_log[j].ok
        /\ <<rl_log[i].id, BucketOf(rl_log[i].t)>> \in DOMAIN rate_limit_cache
        /\ rate_limit_cache[<<rl_log[i].id, BucketOf(rl_log[i].t)>>]
             = LargestLimit(rl_log[i].id)
        /\ LargestLimit(rl_log[i].id) = MaxLimit + 1

\* ---- what is accounted against what was admitted
EntriesFor(id) ==
    LET mine == {e \in BagToSet(usage_logs) : e.api_key_id = id}
    IN  BagCardinality([e \in mine |-> usage_logs[e]])

AdmittedFor(id) ==
    Cardinality({i \in 1..Len(rl_log) : rl_log[i].id = id /\ rl_log[i].ok})

\* C36: for every key the usage log entries written are at most the
\* increase of total_calls, which is at most the Allowed decisions made for
\* the key; a run whose counter update failed has no log entry, and the
\* billing summary counts no event without log entry
C36_AtMostOnce ==
    /\ \A id \in KeyIds :
           /\ EntriesFor(id) <= api_keys[id].total_calls
           /\ api_keys[id].total_calls <= AdmittedFor(id)
    /\ \A r \in Requests : task[r] = "update_failed" => LogCount(r) = 0
    /\ AGENT_ID \in DOMAIN summaries
       => summaries[AGENT_ID].totalMessages
            <= Cardinality({r \in CostEvents : LogCount(r) = 1})

\* C36 witness: of two admitted requests for different keys one had its
\* counter update fail, so that nothing was counted or logged for it, and
\* the other was counted while its log entry failed
C36_Witness ==
    \E q, r \in Requests :
        /\ task[q] = "update_failed"
        /\ AdmittedFor(key_doc[q].id) = 1
        /\ api_keys[key_doc[q].id].total_calls = 0
        /\ task[r] = "log_failed"
        /\ api_keys[key_doc[r].id].total_calls = 1
        /\ EntriesFor(key_doc[r].id) = 0

\* ---- the downstream stage answering or raising
\* the downstream stage produced a response for request r
Produced(r) == downstream[r] # None /\ downstream[r] # Raised

\* C37: a request on the API-key path whose downstream stage produced a
\* response is answered with exactly that response, whatever its
\* X-Token-Count and X-Cost-USD headers hold
C37_ResponseKept ==
    \A r \in Requests :
        (key_doc[r] # None /\ Produced(r)) => response[r] = downstream[r]

C38_State ==
    \A r \in Requests :
        downstream[r] = Raised
        => /\ response[r] = JSONResponse(500, "API key validation failed")
           /\ task[r] = "none"
           /\ usage_data[r] = None
           /\ LogCount(r) = 0
           /\ \E i \in ChecksOf(r) :
                  /\ rl_log[i].ok
                  /\ CounterOf(rate_limit_cache, rl_log[i].id,
                               BucketOf(rl_log[i].t))
                       = Cardinality(AllowedIn(rl_log[i].id,
                                               BucketOf(rl_log[i].t)))

C38_Step ==
    \A r \in Requests :
        (downstream[r] # Raised /\ downstream'[r] = Raised)
        => /\ pc[r] = "forwarding"
           /\ rate_limit_cache' = rate_limit_cache
           /\ api_keys' = api_keys
           /\ usage_logs' = usage_logs
           /\ summaries' = summaries

\* C38: when call_next raises for an admitted request the request is
\* answered 500, no track_usage task is ever created for it and nothing is
\* counted, logged or rolled up for it, while the window map keeps the
\* count the request took: the counter of its key and bucket still counts
\* every admitted check
C38_RaiseNotAccounted == [](C38_State) /\ [][C38_Step]_vars

\* C38 witness: the downstream stage raised for a request of a key with
\* limit 1, and the next request with that key was answered 429 while
\* total_calls stayed 0
C38_Witness ==
    \E q, r \in Requests :
        /\ downstream[q] = Raised
        /\ response[q].status_code = 500
        /\ Is429(r)
        /\ key_doc[r].id = key_doc[q].id
        /\ api_keys[key_doc[q].id].total_calls = 0
        /\ usage_logs = EmptyBag

\* ---- one key's window and another's
C39_State ==
    \A i \in 1..Len(rl_log) :
        rl_log[i].ok
        <=> Cardinality({j \in EarlierInBucket(i) : rl_log[j].ok})
              < LimitOfKey(rl_log[i].id)

C39_Step ==
    Len(rl_log') = Len(rl_log) + 1
    => LET e == rl_log'[Len(rl_log')]
           b == BucketOf(e.t)
       IN  /\ \A ck \in DOMAIN rate_limit_cache :
                  (ck[1] # e.id /\ ck[2] >= b - 1)
                  => /\ ck \in DOMAIN rate_limit_cache'
                     /\ rate_limit_cache'[ck] = rate_limit_cache[ck]
           /\ \A ck \in DOMAIN rate_limit_cache' :
                  ck[1] # e.id => ck \in DOMAIN rate_limit_cache

\* C39: a check_rate_limit call for one key leaves the counters of every
\* other key in the current and the preceding bucket as they were and
\* creates none for them, and the decision of every call is fixed by the
\* earlier admitted calls for its own key in its own bucket
C39_KeysIsolated == [](C39_State) /\ [][C39_Step]_vars

\* C39 witness: in one bucket a key was throttled at its limit and, after
\* that, another key was admitted
C39_Witness ==
    \E i, j \in 1..Len(rl_log) :
        /\ i < j
        /\ rl_log[i].id # rl_log[j].id
        /\ BucketOf(rl_log[i].t) = BucketOf(rl_log[j].t)
        /\ LimitOfKey(rl_log[i].id) >= 1
        /\ ~rl_log[i].ok
        /\ rl_log[j].ok

\* ---- key ids with the separator of the cache key
\* C40: every check_rate_limit call returns a decision, Allowed or
\* Throttled, whatever the key id is and whatever entries earlier calls
\* left in the window map; none raises
C40_AlwaysDecides == \A i \in 1..Len(rl_log) : ~rl_log[i].raised

\* a counter that int() misreads is also dropped while its minute lasts,
\* so that a key with such an id is admitted beyond its limit
C40_LimitEnforced ==
    \A i \in 1..Len(rl_log) :
        rl_log[i].ok
        => Cardinality({j \in EarlierInBucket(i) : rl_log[j].ok})
             < rl_log[i].limit

====
